---- MODULE Spec2Model ----
(***************************************************************************)
(* The UI-audit pipeline of main.py: preprocess_video (mute a video with   *)
(* ffmpeg), upload_to_gcs (upload to a bucket), analyze_with_gemini (ask   *)
(* the model, cache the report), driven by the __main__ block.             *)
(*                                                                         *)
(* The filesystem, the bucket and the model are the environment.  Every    *)
(* external call (the ffmpeg subprocess, blob.exists, upload_from_filename,*)
(* generate_content) either succeeds or raises, chosen nondeterministically.*)
(* Paths are records [dir, stem, ext]; os.path.join(dir, stem + ext) is the*)
(* string PathStr gives.  Texts are sequences of characters over Chars, so *)
(* that the text-mode newline handling of open() is visible.  The platform *)
(* is POSIX (os.sep = "/", os.linesep = "\n").                             *)
(***************************************************************************)
EXTENDS Integers, Sequences, FiniteSets, TLC

VARIABLES
    target_file,   \* main.py:120, the input of every run of this process image
    apiKey,        \* main.py:116, whether LANGSMITH_API_KEY is set
    dirs,          \* directories that exist
    fs,            \* path -> [exists, data]
    bucket,        \* whether the bucket BUCKET_NAME exists
    blobs,         \* blob name -> [exists, data]
    pc,            \* per run: the statement it is at
    output_file,   \* preprocess_video's local (line 39)
    work_path,     \* __main__'s local (lines 131, 134)
    gcs_uri,       \* __main__'s local (line 137)
    response,      \* analyze_with_gemini's local response.text (line 95)
    report,        \* __main__'s local (line 140)
    printed,       \* the lines the run has printed
    calls,         \* per run: how many external calls of each kind it made
    failedAt,      \* per run: the stage whose external call raised
    fresh,         \* per run: no artifact of the input existed when it started
    complete,      \* per run: every artifact of the input existed when it started
    prev           \* the run that ended last

vars == <<target_file, apiKey, dirs, fs, bucket, blobs, pc, output_file, work_path,
          gcs_uri, response, report, printed, calls, failedAt, fresh, complete, prev>>

-----------------------------------------------------------------------------
(* Bounds *)

MaxTextLen == 1

Procs == {1, 2}

Chars == {"a", "CR", "LF"}

Texts == UNION {[1..n -> Chars] : n \in 0..MaxTextLen}

-----------------------------------------------------------------------------
(* Configuration and paths *)

BUCKET_NAME == "ui-bucket"

None == "None"

Path(d, s, e) == [dir |-> d, stem |-> s, ext |-> e]

NoPath == Path("", "", "")

Basename(path) == path.stem \o path.ext

PathStr(path) == path.dir \o "/" \o Basename(path)

Inputs ==
    { Path("recordings", "clip", ".mp4"),
      Path("recordings", "shot", ".png"),
      Path("recordings", "notes", ".txt"),
      Path("recordings", "dump", ".zzz"),
      Path("recordings", "gone", ".mp4") }

InputData(path) ==
    CASE path.stem = "clip"  -> <<"VIDEO", "AUDIO">>
      [] path.stem = "shot"  -> <<"IMAGE">>
      [] path.stem = "notes" -> <<"a">>
      [] path.stem = "dump"  -> <<"a", "a">>
      [] OTHER               -> <<>>

OnDisk == {i \in Inputs : i.stem # "gone"}

File(d) == [exists |-> TRUE, data |-> d]

NoFile == [exists |-> FALSE, data |-> <<>>]

GuessType(ext) ==
    CASE ext = ".mp4" -> "video/mp4"
      [] ext = ".png" -> "image/png"
      [] ext = ".jpg" -> "image/jpeg"
      [] ext = ".txt" -> "text/plain"
      [] OTHER        -> None

get_mime_type(file_path) ==
    LET mime_type == GuessType(file_path.ext) IN
    IF mime_type = None
    THEN CASE file_path.ext \in {".jpg", ".jpeg"} -> "image/jpeg"
           [] file_path.ext = ".png"              -> "image/png"
           [] file_path.ext = ".mp4"              -> "video/mp4"
           [] OTHER                               -> mime_type
    ELSE mime_type

StartsWithVideoAlways(mime) == mime # None

StartsWithVideo(mime) == mime # None /\ mime \in {"video/mp4"}

MutedPath(input_file) == Path("processed", "muted_" \o input_file.stem, input_file.ext)

ReportPathOfStem(original_filename) ==
    Path("processed", "report_" \o original_filename.stem, ".txt")

ReportPath(original_filename) ==
    Path("processed", "report_" \o Basename(original_filename), ".txt")

BlobName(local_path) == "uploads/" \o Basename(local_path)

GcsUri(blob_name) == "gs://" \o BUCKET_NAME \o "/" \o blob_name

WorkPaths == Inputs \cup {MutedPath(i) : i \in Inputs}

Paths == WorkPaths \cup {ReportPath(i) : i \in Inputs}

BlobNames == {BlobName(w) : w \in WorkPaths}

-----------------------------------------------------------------------------
(* Text files: open(..., "w"/"r", encoding="utf-8") *)

OsLinesep == <<"LF">>

RECURSIVE TextWrite(_)
TextWrite(text) ==
    IF text = <<>> THEN <<>>
    ELSE (IF Head(text) = "LF" THEN OsLinesep ELSE <<Head(text)>>) \o TextWrite(Tail(text))

RECURSIVE TextRead(_)
TextRead(data) ==
    IF data = <<>> THEN <<>>
    ELSE IF Head(data) = "CR"
         THEN <<"LF">> \o TextRead(IF Len(data) >= 2 /\ data[2] = "LF"
                                     THEN SubSeq(data, 3, Len(data))
                                     ELSE Tail(data))
         ELSE <<Head(data)>> \o TextRead(Tail(data))

StripAudio(data) == SelectSeq(data, LAMBDA s : s # "AUDIO")

-----------------------------------------------------------------------------
(* Printed lines *)

Line(tag) == [tag |-> tag, text |-> <<>>]

ReportLine(text) == [tag |-> "AUDIT REPORT", text |-> text]

Emit(p, line) == printed' = [printed EXCEPT ![p] = Append(@, line)]

Ended(p) == [ran |-> TRUE, output |-> output_file[p], work |-> work_path[p],
             ffmpeg |-> calls[p].ffmpeg]

NoCalls == [ffmpeg |-> 0, query |-> 0, upload |-> 0, model |-> 0, write |-> 0]

Count(p, kind) == calls' = [calls EXCEPT ![p][kind] = @ + 1]

-----------------------------------------------------------------------------
(* Existence checks *)

FileExists(path) == fs[path].exists

MutedCachedNever(p) == FALSE

MutedCached(p) == FileExists(output_file[p])

BlobCachedNever(p) == FALSE

BlobCached(p) == blobs[BlobName(work_path[p])].exists

ReportCachedNever(p) == FALSE

ReportCached(p) == FileExists(ReportPath(target_file))

IsVideoInput == StartsWithVideo(get_mime_type(target_file))

ArtifactsAbsent ==
    /\ ~FileExists(MutedPath(target_file))
    /\ ~blobs[BlobName(MutedPath(target_file))].exists
    /\ ~blobs[BlobName(target_file)].exists
    /\ ~FileExists(ReportPath(target_file))

ArtifactsComplete ==
    /\ FileExists(target_file)
    /\ FileExists(ReportPath(target_file))
    /\ IF IsVideoInput
       THEN FileExists(MutedPath(target_file))
            /\ blobs[BlobName(MutedPath(target_file))].exists
       ELSE blobs[BlobName(target_file)].exists

-----------------------------------------------------------------------------
(* Initial state: nothing processed yet *)

Init ==
    /\ target_file \in Inputs
    /\ apiKey \in BOOLEAN
    /\ dirs = {"recordings"}
    /\ fs = [path \in Paths |-> IF path \in OnDisk THEN File(InputData(path)) ELSE NoFile]
    /\ bucket \in BOOLEAN
    /\ blobs = [b \in BlobNames |-> NoFile]
    /\ pc = [p \in Procs |-> "idle"]
    /\ output_file = [p \in Procs |-> NoPath]
    /\ work_path = [p \in Procs |-> NoPath]
    /\ gcs_uri = [p \in Procs |-> ""]
    /\ response = [p \in Procs |-> <<>>]
    /\ report = [p \in Procs |-> <<>>]
    /\ printed = [p \in Procs |-> <<>>]
    /\ calls = [p \in Procs |-> NoCalls]
    /\ failedAt = [p \in Procs |-> "none"]
    /\ fresh = [p \in Procs |-> FALSE]
    /\ complete = [p \in Procs |-> FALSE]
    /\ prev = [ran |-> FALSE, output |-> NoPath, work |-> NoPath, ffmpeg |-> 0]

env == <<target_file, apiKey>>
store == <<bucket, blobs>>
disk == <<dirs, fs>>
locals == <<output_file, work_path, gcs_uri, response, report>>
ghost == <<fresh, complete, prev>>

-----------------------------------------------------------------------------
(* __main__ *)

Start(p) ==
    /\ pc[p] \in {"idle", "exited"}
    /\ pc' = [pc EXCEPT ![p] = "main"]
    /\ output_file' = [output_file EXCEPT ![p] = NoPath]
    /\ work_path' = [work_path EXCEPT ![p] = NoPath]
    /\ gcs_uri' = [gcs_uri EXCEPT ![p] = ""]
    /\ response' = [response EXCEPT ![p] = <<>>]
    /\ report' = [report EXCEPT ![p] = <<>>]
    /\ printed' = [printed EXCEPT ![p] = <<>>]
    /\ calls' = [calls EXCEPT ![p] = NoCalls]
    /\ failedAt' = [failedAt EXCEPT ![p] = "none"]
    /\ fresh' = [fresh EXCEPT ![p] = ArtifactsAbsent]
    /\ complete' = [complete EXCEPT ![p] = ArtifactsComplete]
    /\ UNCHANGED <<env, disk, store, prev>>

CheckApiKey(p) ==
    /\ pc[p] = "main"
    /\ IF ~apiKey
       THEN /\ Emit(p, Line("Error: LANGSMITH_API_KEY not found."))
            /\ pc' = [pc EXCEPT ![p] = "exited"]
            /\ prev' = Ended(p)
       ELSE /\ pc' = [pc EXCEPT ![p] = "check_file"]
            /\ UNCHANGED <<printed, prev>>
    /\ UNCHANGED <<env, disk, store, locals, calls, failedAt, fresh, complete>>

CheckFile(p) ==
    /\ pc[p] = "check_file"
    /\ IF ~FileExists(target_file)
       THEN /\ Emit(p, Line("File not found"))
            /\ pc' = [pc EXCEPT ![p] = "finally"]
            /\ UNCHANGED work_path
       ELSE IF StartsWithVideo(get_mime_type(target_file))
       THEN /\ Emit(p, Line("Processing"))
            /\ pc' = [pc EXCEPT ![p] = "makedirs"]
            /\ UNCHANGED work_path
       ELSE /\ printed' = [printed EXCEPT ![p] =
                              @ \o <<Line("Processing"), Line("Step 1: Skipping")>>]
            /\ work_path' = [work_path EXCEPT ![p] = target_file]
            /\ pc' = [pc EXCEPT ![p] = "blob_exists"]
    /\ UNCHANGED <<env, disk, store, output_file, gcs_uri, response, report,
                   calls, failedAt, ghost>>

-----------------------------------------------------------------------------
(* preprocess_video *)

Makedirs(p) ==
    /\ pc[p] = "makedirs"
    /\ dirs' = dirs \cup {"processed"}
    /\ output_file' = [output_file EXCEPT ![p] = MutedPath(target_file)]
    /\ pc' = [pc EXCEPT ![p] = "muted_exists"]
    /\ UNCHANGED <<env, fs, store, work_path, gcs_uri, response, report, printed,
                   calls, failedAt, ghost>>

MutedExists(p) ==
    /\ pc[p] = "muted_exists"
    /\ IF MutedCached(p)
       THEN /\ Emit(p, Line("Step 1: Video mute skipped"))
            /\ work_path' = [work_path EXCEPT ![p] = output_file[p]]
            /\ pc' = [pc EXCEPT ![p] = "blob_exists"]
       ELSE /\ Emit(p, Line("Step 1: Muting video"))
            /\ pc' = [pc EXCEPT ![p] = "ffmpeg"]
            /\ UNCHANGED work_path
    /\ UNCHANGED <<env, disk, store, output_file, gcs_uri, response, report,
                   calls, failedAt, ghost>>

AfterRunUnchecked(returncode) == "blob_exists"

AfterRun(returncode) == IF returncode # 0 THEN "except" ELSE "blob_exists"

(* ffmpeg exits 0 having written the muted copy, or exits non-zero, leaving *)
(* either no output file or a truncated one; check=True raises on non-zero. *)
Ffmpeg(p) ==
    /\ pc[p] = "ffmpeg"
    /\ Count(p, "ffmpeg")
    /\ \E returncode \in {0, 1} : \E written \in BOOLEAN :
          /\ returncode = 0 => written
          /\ fs' = IF written
                   THEN [fs EXCEPT ![output_file[p]] =
                           File(IF returncode = 0 THEN StripAudio(fs[target_file].data)
                                                  ELSE <<>>)]
                   ELSE fs
          /\ pc' = [pc EXCEPT ![p] = AfterRun(returncode)]
          /\ failedAt' = [failedAt EXCEPT ![p] = IF returncode # 0 THEN "ffmpeg" ELSE @]
          /\ work_path' = [work_path EXCEPT ![p] =
                              IF AfterRun(returncode) = "except" THEN @ ELSE output_file[p]]
    /\ UNCHANGED <<env, dirs, store, output_file, gcs_uri, response, report,
                   printed, ghost>>

-----------------------------------------------------------------------------
(* upload_to_gcs *)

(* blob.exists() is a request to the store: it raises on a transport or    *)
(* permission error and answers False for a missing object, also when the  *)
(* bucket itself is missing.                                                *)
BlobExists(p) ==
    /\ pc[p] = "blob_exists"
    /\ Count(p, "query")
    /\ \E raised \in BOOLEAN :
          IF raised
          THEN /\ failedAt' = [failedAt EXCEPT ![p] = "storage"]
               /\ pc' = [pc EXCEPT ![p] = "except"]
               /\ UNCHANGED <<printed, gcs_uri>>
          ELSE IF BlobCached(p)
          THEN /\ Emit(p, Line("Step 2: GCS skip"))
               /\ gcs_uri' = [gcs_uri EXCEPT ![p] = GcsUri(BlobName(work_path[p]))]
               /\ pc' = [pc EXCEPT ![p] = "report_exists"]
               /\ UNCHANGED failedAt
          ELSE /\ Emit(p, Line("Step 2: Uploading to GCS"))
               /\ pc' = [pc EXCEPT ![p] = "upload"]
               /\ UNCHANGED <<failedAt, gcs_uri>>
    /\ UNCHANGED <<env, disk, store, output_file, work_path, response, report, ghost>>

(* upload_from_filename raises NotFound when the bucket does not exist;     *)
(* nothing in upload_to_gcs creates the bucket.                             *)
Upload(p) ==
    /\ pc[p] = "upload"
    /\ Count(p, "upload")
    /\ \E raised \in BOOLEAN :
          IF raised \/ ~bucket
          THEN /\ failedAt' = [failedAt EXCEPT ![p] = "storage"]
               /\ pc' = [pc EXCEPT ![p] = "except"]
               /\ UNCHANGED <<blobs, gcs_uri>>
          ELSE /\ blobs' = [blobs EXCEPT ![BlobName(work_path[p])] =
                              File(fs[work_path[p]].data)]
               /\ gcs_uri' = [gcs_uri EXCEPT ![p] = GcsUri(BlobName(work_path[p]))]
               /\ pc' = [pc EXCEPT ![p] = "report_exists"]
               /\ UNCHANGED failedAt
    /\ UNCHANGED <<env, disk, bucket, output_file, work_path, response, report,
                   printed, ghost>>

-----------------------------------------------------------------------------
(* analyze_with_gemini *)

ReportExists(p) ==
    /\ pc[p] = "report_exists"
    /\ IF ReportCached(p)
       THEN /\ Emit(p, Line("Step 3: Gemini skip"))
            /\ report' = [report EXCEPT ![p] = TextRead(fs[ReportPath(target_file)].data)]
            /\ pc' = [pc EXCEPT ![p] = "print"]
       ELSE /\ Emit(p, Line("Step 3: Sending to Gemini API"))
            /\ pc' = [pc EXCEPT ![p] = "generate"]
            /\ UNCHANGED report
    /\ UNCHANGED <<env, disk, store, output_file, work_path, gcs_uri, response,
                   calls, failedAt, ghost>>

GenerateRecheck(p) ==
    /\ pc[p] = "generate"
    /\ pc' = [pc EXCEPT ![p] = IF ReportCached(p) THEN "report_exists" ELSE "write"]
    /\ calls' = IF ReportCached(p) THEN calls ELSE [calls EXCEPT ![p].model = @ + 1]
    /\ UNCHANGED <<env, disk, store, locals, printed, failedAt, ghost>>

Generate(p) ==
    /\ pc[p] = "generate"
    /\ Count(p, "model")
    /\ \E raised \in BOOLEAN :
          IF raised
          THEN /\ failedAt' = [failedAt EXCEPT ![p] = "model"]
               /\ pc' = [pc EXCEPT ![p] = "except"]
               /\ UNCHANGED response
          ELSE /\ \E text \in Texts : response' = [response EXCEPT ![p] = text]
               /\ pc' = [pc EXCEPT ![p] = "write"]
               /\ UNCHANGED failedAt
    /\ UNCHANGED <<env, disk, store, output_file, work_path, gcs_uri, report,
                   printed, ghost>>

WriteReport(p) ==
    /\ pc[p] = "write"
    /\ Count(p, "write")
    /\ dirs' = dirs \cup {"processed"}
    /\ fs' = [fs EXCEPT ![ReportPath(target_file)] = File(TextWrite(response[p]))]
    /\ report' = [report EXCEPT ![p] = response[p]]
    /\ pc' = [pc EXCEPT ![p] = "print"]
    /\ UNCHANGED <<env, store, output_file, work_path, gcs_uri, response, printed,
                   failedAt, ghost>>

-----------------------------------------------------------------------------
(* __main__, after the stages *)

PrintReport(p) ==
    /\ pc[p] = "print"
    /\ Emit(p, ReportLine(report[p]))
    /\ pc' = [pc EXCEPT ![p] = "finally"]
    /\ UNCHANGED <<env, disk, store, locals, calls, failedAt, ghost>>

Except(p) ==
    /\ pc[p] = "except"
    /\ Emit(p, Line("Error"))
    /\ pc' = [pc EXCEPT ![p] = "finally"]
    /\ UNCHANGED <<env, disk, store, locals, calls, failedAt, ghost>>

Finally(p) ==
    /\ pc[p] = "finally"
    /\ Emit(p, Line("Finalizing LangSmith connection"))
    /\ pc' = [pc EXCEPT ![p] = "exited"]
    /\ prev' = Ended(p)
    /\ UNCHANGED <<env, disk, store, locals, calls, failedAt, fresh, complete>>

Step(p) ==
    \/ Start(p)
    \/ CheckApiKey(p)
    \/ CheckFile(p)
    \/ Makedirs(p)
    \/ MutedExists(p)
    \/ Ffmpeg(p)
    \/ BlobExists(p)
    \/ Upload(p)
    \/ ReportExists(p)
    \/ Generate(p)
    \/ WriteReport(p)
    \/ PrintReport(p)
    \/ Except(p)
    \/ Finally(p)

(* One process, run after run: consecutive runs never overlap. *)
Next == Step(1)

Spec == Init /\ [][Next]_vars

(* Two processes started independently on the same input. *)
NextConcurrent == \E p \in Procs : Step(p)

SpecConcurrent == Init /\ [][NextConcurrent]_vars

-----------------------------------------------------------------------------
(* Observations used by the properties *)

Running(p) == pc[p] \notin {"idle", "exited"}

HasLine(p, tag) == \E i \in 1..Len(printed[p]) : printed[p][i].tag = tag

PrintedReports(p) ==
    {printed[p][i].text : i \in {j \in 1..Len(printed[p]) : printed[p][j].tag = "AUDIT REPORT"}}

ExistsAt(str) == \E path \in Paths : PathStr(path) = str /\ fs[path].exists

DataAt(str) == {fs[path].data : path \in {q \in Paths : PathStr(q) = str /\ fs[q].exists}}

SupportedExts == {".jpg", ".jpeg", ".png", ".mp4"}

ImageExts == {".jpg", ".jpeg", ".png"}

NothingProduced ==
    /\ dirs = {"recordings"}
    /\ \A path \in Paths : fs[path].exists <=> path \in OnDisk
    /\ \A b \in BlobNames : ~blobs[b].exists

-----------------------------------------------------------------------------
(* C1: a run on a video with no artifact beforehand and every external call *)
(* succeeding ends with processed/muted_<name> on disk, uploads/muted_<name>*)
(* in the bucket, and processed/report_<name>.txt holding exactly the text  *)
(* the model returned, which is also the report the run printed.            *)
C1_FreshVideoRun ==
    ( /\ pc[1] = "exited"
      /\ apiKey
      /\ IsVideoInput
      /\ FileExists(target_file)
      /\ fresh[1]
      /\ failedAt[1] = "none" )
    => /\ ExistsAt("processed/muted_" \o Basename(target_file))
       /\ blobs["uploads/muted_" \o Basename(target_file)].exists
       /\ gcs_uri[1] = "gs://" \o BUCKET_NAME \o "/uploads/muted_" \o Basename(target_file)
       /\ DataAt("processed/report_" \o Basename(target_file) \o ".txt") = {response[1]}
       /\ PrintedReports(1) = {response[1]}
       /\ calls[1] = [ffmpeg |-> 1, query |-> 1, upload |-> 1, model |-> 1, write |-> 1]

C1_Witness ==
    /\ pc[1] = "exited"
    /\ target_file = Path("recordings", "clip", ".mp4")
    /\ fresh[1]
    /\ failedAt[1] = "none"
    /\ ExistsAt("processed/muted_clip.mp4")
    /\ blobs["uploads/muted_clip.mp4"].exists
    /\ ExistsAt("processed/report_clip.mp4.txt")
    /\ response[1] = <<"LF">>
    /\ PrintedReports(1) = {<<"LF">>}

(* C2: every call of upload_to_gcs ensures the bucket: once the uploader has*)
(* queried the object (and before it uploads), the bucket exists, created   *)
(* by the uploader when it was absent.                                      *)
C2_BucketEnsured ==
    \A p \in Procs : (Running(p) /\ calls[p].query > 0) => bucket

(* C3: a run whose input is missing, or whose extension is in neither       *)
(* allow-list, prints a failure message and produces nothing: no processed/ *)
(* directory, no file, no bucket object, no upload and no model request.    *)
C3_RejectedInputLeavesNothing ==
    (~FileExists(target_file) \/ target_file.ext \notin SupportedExts)
    => /\ NothingProduced
       /\ \A p \in Procs : calls[p].ffmpeg = 0 /\ calls[p].upload = 0
       /\ \A p \in Procs : calls[p].model = 0 /\ calls[p].write = 0
       /\ \A p \in Procs : PrintedReports(p) = {}
       /\ \A p \in Procs :
             (pc[p] = "exited" /\ apiKey) => (HasLine(p, "File not found") \/ HasLine(p, "Error"))

(* C4, as claimed: in any two consecutive runs on the same video the second *)
(* run uses the muted path of the first and never invokes ffmpeg.           *)
C4_SecondRunNeverTranscodes ==
    (prev.ran /\ IsVideoInput /\ Running(1))
    => /\ calls[1].ffmpeg = 0
       /\ (output_file[1] # NoPath /\ prev.output # NoPath) => output_file[1] = prev.output

(* C4, amended: two consecutive runs on the same video compute the same     *)
(* muted path processed/muted_<basename>, and the second run does not       *)
(* invoke ffmpeg when the first run's preprocessing stage returned (a cache *)
(* hit or an ffmpeg exit status of 0).                                      *)
C4_SecondRunSkipsAfterMuted ==
    (prev.ran /\ IsVideoInput /\ Running(1))
    => /\ (output_file[1] # NoPath /\ prev.output # NoPath) => output_file[1] = prev.output
       /\ output_file[1] # NoPath =>
             PathStr(output_file[1]) = "processed/muted_" \o Basename(target_file)
       /\ work_path[1] # NoPath => work_path[1] = output_file[1]
       /\ prev.work # NoPath => (calls[1].ffmpeg = 0 /\ pc[1] # "ffmpeg")

C4_Witness ==
    /\ prev.ran
    /\ prev.ffmpeg = 1
    /\ prev.work # NoPath
    /\ IsVideoInput
    /\ pc[1] = "blob_exists"
    /\ work_path[1] = prev.work
    /\ calls[1].ffmpeg = 0
    /\ HasLine(1, "Step 1: Video mute skipped")

C6_CachedReportReturnedExactly ==
    \A p \in Procs :
       (pc[p] = "print" /\ HasLine(p, "Step 3: Gemini skip"))
       => /\ report[p] = fs[ReportPath(target_file)].data
          /\ calls[p].model = 0
          /\ calls[p].write = 0

(* C7, as claimed: a run started with every artifact of the input present   *)
(* invokes no transcoder, uploads nothing, asks the model nothing, writes   *)
(* nothing, and ends having printed the cached report.                      *)
C7_RerunPrintsCachedReport ==
    complete[1]
    => /\ calls[1].ffmpeg = 0 /\ calls[1].upload = 0
       /\ calls[1].model = 0 /\ calls[1].write = 0
       /\ pc[1] = "exited" =>
             PrintedReports(1) = {TextRead(fs[ReportPath(target_file)].data)}

(* C7, amended: a run started with every artifact of the input present      *)
(* invokes no transcoder, uploads nothing, asks the model nothing and       *)
(* changes no artifact, however many such runs came before; it ends having  *)
(* printed the cached report unless its object-existence query raised, in   *)
(* which case it prints an error line and no report.                        *)
C7_RerunIsNoOp ==
    /\ [](complete[1]
          => /\ calls[1].ffmpeg = 0 /\ calls[1].upload = 0
             /\ calls[1].model = 0 /\ calls[1].write = 0
             /\ ArtifactsComplete
             /\ pc[1] = "exited" =>
                   IF failedAt[1] = "none"
                   THEN PrintedReports(1) = {TextRead(fs[ReportPath(target_file)].data)}
                   ELSE /\ failedAt[1] = "storage"
                        /\ HasLine(1, "Error")
                        /\ PrintedReports(1) = {})
    /\ [][(complete[1] /\ complete'[1]) => (disk' = disk /\ store' = store)]_vars

C7_Witness ==
    /\ complete[1]
    /\ prev.ran
    /\ pc[1] = "exited"
    /\ failedAt[1] = "none"
    /\ calls[1] = [ffmpeg |-> 0, query |-> 1, upload |-> 0, model |-> 0, write |-> 0]
    /\ PrintedReports(1) = {<<"a">>}

(* C8: for an image input, from the start of a run to the start of the      *)
(* upload stage nothing is created on disk (no processed/ directory, no     *)
(* file), preprocess_video is not entered, and the path handed to the       *)
(* uploader is the input path.                                              *)
C8_ImageSkipsPreprocessing ==
    [][ (target_file.ext \in ImageExts /\ pc[1] \in {"idle", "exited", "main", "check_file"})
        => /\ disk' = disk
           /\ pc'[1] \notin {"makedirs", "muted_exists", "ffmpeg"}
           /\ pc'[1] = "blob_exists" =>
                 (work_path'[1] = target_file /\ output_file'[1] = NoPath)
      ]_vars

C8_Witness ==
    /\ target_file = Path("recordings", "shot", ".png")
    /\ pc[1] = "blob_exists"
    /\ work_path[1] = target_file
    /\ "processed" \notin dirs
    /\ calls[1] = NoCalls
    /\ HasLine(1, "Step 1: Skipping")

(* C9: a run whose stage fails halts there: after a transcoder failure no   *)
(* storage call and no model request is made, after a storage failure no    *)
(* model request; no report is printed, no call is repeated, and the run    *)
(* ends after printing an error line.                                       *)
C9_FailureHaltsRun ==
    \A p \in Procs :
       /\ failedAt[p] # "none" =>
             /\ pc[p] \in {"except", "finally", "exited"}
             /\ PrintedReports(p) = {}
             /\ pc[p] \in {"finally", "exited"} => HasLine(p, "Error")
             /\ pc[p] = "exited" =>
                   printed[p][Len(printed[p])].tag = "Finalizing LangSmith connection"
       /\ failedAt[p] = "ffmpeg" =>
             calls[p] = [ffmpeg |-> 1, query |-> 0, upload |-> 0, model |-> 0, write |-> 0]
       /\ failedAt[p] = "storage" =>
             /\ calls[p].model = 0 /\ calls[p].write = 0
             /\ calls[p].query = 1 /\ calls[p].upload <= 1
       /\ failedAt[p] = "model" => (calls[p].model = 1 /\ calls[p].write = 0)
       /\ \A kind \in DOMAIN calls[p] : calls[p][kind] <= 1

C9_Witness ==
    /\ failedAt[1] = "ffmpeg"
    /\ pc[1] = "exited"
    /\ HasLine(1, "Error")
    /\ calls[1].query = 0

(* C10: two runs on the same input do not exclude each other: a run that    *)
(* missed an existence check performs the stage's external work whatever    *)
(* the other run has produced in the meantime, so both runs can invoke      *)
(* ffmpeg, both upload, both ask the model and both write the report file.  *)
C10_MissedCheckIsNotRepeated ==
    [][ \A p \in Procs :
          /\ (pc[p] = "ffmpeg" /\ pc'[p] # "ffmpeg") => calls'[p].ffmpeg = calls[p].ffmpeg + 1
          /\ (pc[p] = "upload" /\ pc'[p] # "upload") => calls'[p].upload = calls[p].upload + 1
          /\ (pc[p] = "generate" /\ pc'[p] # "generate") => calls'[p].model = calls[p].model + 1
          /\ (pc[p] = "write" /\ pc'[p] # "write") =>
                /\ calls'[p].write = calls[p].write + 1
                /\ fs'[ReportPath(target_file)] = File(TextWrite(response[p]))
      ]_vars

C10_Witness ==
    /\ fresh[1] /\ fresh[2]
    /\ \A p \in Procs :
          calls[p] = [ffmpeg |-> 1, query |-> 1, upload |-> 1, model |-> 1, write |-> 1]
    /\ response[1] # response[2]
    /\ pc[1] = "print" /\ pc[2] = "print"

====
